---- MODULE Spec2Model ----
(***************************************************************************)
(* Model of rss-feeds-tutorial-script.py: the RSS news aggregator.         *)
(*                                                                         *)
(* Text that the code inspects (title, description, keyword) is a sequence *)
(* of one-character strings, so that lower(), the substring test and the   *)
(* [:150] slice are computed.  Text that the code only hands on (link,     *)
(* published, source name, url) is a plain string.                         *)
(***************************************************************************)
EXTENDS Integers, Sequences, FiniteSets, TLC

VARIABLES
    pc,               \* position of the running function (main / fetch_all_feeds)
    feed_dict,        \* argument of fetch_all_feeds: <<[name, url], ...>> in iteration order
    i,                \* index in feed_dict of the source the for loop of line 43 is at
    feed,             \* feed.entries of the source being attempted (line 47)
    j,                \* index in feed of the entry the for loop of line 49 is at
    all_articles,     \* line 41
    attempts,         \* history: one record per ended attempt, what the parser returned
    trace,            \* history: the prints and the sleeps of fetch_all_feeds, in order
    sorted_articles,  \* line 145
    tech_news,        \* line 151
    ai_news,          \* line 158
    out,              \* what main wrote to standard output after the fetch, in order
    stages,           \* history: the stages main has started, in order
    input,            \* SpecCalls: the articles argument of the function under call
    call              \* SpecCalls: the call made on `input` and what it returned or raised

vars == <<pc, feed_dict, i, feed, j, all_articles, attempts, trace,
          sorted_articles, tech_news, ai_news, out, stages, input, call>>

fetchVars == <<feed_dict, i, feed, j, all_articles, attempts, trace>>
mainVars == <<sorted_articles, tech_news, ai_news, out, stages>>
callVars == <<input, call>>

(***************************************************************************)
(* Bounds of the model.                                                    *)
(***************************************************************************)
MaxSources == 2     \* SpecFetch: sources in the mapping handed to fetch_all_feeds
MaxEntries == 2     \* entries in one parsed feed
MaxFetched == 3     \* entries parsed, over all sources, in one run of fetch_all_feeds
MaxLen == 3         \* SpecCalls: length of the articles argument

Min(a, b) == IF a <= b THEN a ELSE b
Max(a, b) == IF a >= b THEN a ELSE b

(***************************************************************************)
(* Python built-ins the code uses.                                         *)
(***************************************************************************)
Upper == <<"A","B","C","D","E","F","G","H","I","J","K","L","M",
           "N","O","P","Q","R","S","T","U","V","W","X","Y","Z">>
Lower == <<"a","b","c","d","e","f","g","h","i","j","k","l","m",
           "n","o","p","q","r","s","t","u","v","w","x","y","z">>

\* str.lower() on one character
lower_char(c) ==
    IF \E k \in 1..Len(Upper) : Upper[k] = c
    THEN Lower[CHOOSE k \in 1..Len(Upper) : Upper[k] = c]
    ELSE c

\* str.lower()
lower(s) == [k \in 1..Len(s) |-> lower_char(s[k])]

\* the `in` operator on two str: needle occurs in hay as a contiguous run
str_in(needle, hay) ==
    \E p \in 0..(Len(hay) - Len(needle)) :
        \A k \in 1..Len(needle) : hay[p + k] = needle[k]

\* seq[:n], for any integer n (a negative n counts from the end)
slice_to(s, n) ==
    IF n >= 0 THEN SubSeq(s, 1, Min(n, Len(s)))
    ELSE SubSeq(s, 1, Max(Len(s) + n, 0))

\* dict.get(key, default)
get(d, key, default) == IF key \in DOMAIN d THEN d[key] ELSE default

Reverse(s) == [k \in 1..Len(s) |-> s[Len(s) + 1 - k]]

(***************************************************************************)
(* Dates.  A datetime is [tz, t]: tz tells whether it carries a time zone  *)
(* (aware) or not (naive); t counts hours from 0001-01-01T00:00, for an    *)
(* aware value after conversion to UTC, which is how two aware values of   *)
(* different offsets compare.                                              *)
(***************************************************************************)
At(days, hours) == days * 24 + hours

\* datetime.min: naive, the least representable value
datetime_min == [tz |-> FALSE, t |-> 0]

\* dateutil's parser.parse on the published texts of the model: the value,
\* or raised (ParserError) on text that holds no date
date_parser_parse(s) ==
    CASE s = "2024-01-01T00:00:00Z" ->
            [raised |-> FALSE, value |-> [tz |-> TRUE, t |-> At(738885, 0)]]
      [] s = "Mon, 01 Jan 2024 01:00:00 +0100" ->
            [raised |-> FALSE, value |-> [tz |-> TRUE, t |-> At(738885, 1) - 1]]
      [] s = "Wed, 03 Jan 2024 00:00:00 GMT" ->
            [raised |-> FALSE, value |-> [tz |-> TRUE, t |-> At(738887, 0)]]
      [] s = "2024-01-02 00:00:00" ->
            [raised |-> FALSE, value |-> [tz |-> FALSE, t |-> At(738886, 0)]]
      [] s = "2024-01-02T00:00" ->
            [raised |-> FALSE, value |-> [tz |-> FALSE, t |-> At(738886, 0)]]
      [] OTHER -> 
            [raised |-> TRUE, value |-> datetime_min]

parse_date(date_string) ==
    LET r == date_parser_parse(date_string)
    IN  IF r.raised THEN datetime_min ELSE r.value

\* datetime.__lt__ raises TypeError ("can't compare offset-naive and
\* offset-aware datetimes") unless both operands are naive or both aware
comparable(a, b) == a.tz = b.tz
datetime_lt(a, b) == a.t < b.t

(***************************************************************************)
(* sorted(): the keys are computed once per item, the items are sorted by  *)
(* a stable insertion (what list.sort does on short lists), each           *)
(* comparison being key(x) < key(y); reverse=True reverses the list,       *)
(* sorts it the same way and reverses the outcome.  The outcome is         *)
(* [raised, val]: raised when a comparison raised TypeError.               *)
(***************************************************************************)
RECURSIVE insert(_, _, _)
insert(s, x, p) ==
    IF p = 0 THEN [raised |-> FALSE, val |-> <<x>> \o s]
    ELSE IF ~comparable(x.key, s[p].key) THEN [raised |-> TRUE, val |-> <<>>]
    ELSE IF datetime_lt(x.key, s[p].key) THEN insert(s, x, p - 1)
    ELSE [raised |-> FALSE,
          val |-> SubSeq(s, 1, p) \o <<x>> \o SubSeq(s, p + 1, Len(s))]

RECURSIVE stable_sort(_)
stable_sort(items) ==
    IF Len(items) <= 1 THEN [raised |-> FALSE, val |-> items]
    ELSE LET front == stable_sort(SubSeq(items, 1, Len(items) - 1))
         IN  IF front.raised THEN front
             ELSE insert(front.val, items[Len(items)], Len(front.val))

keyed(articles) ==
    [k \in 1..Len(articles) |->
        [key |-> parse_date(articles[k].published), item |-> articles[k]]]

\* a sort that gets the descending order by reversing the ascending result
sorted_reversing_result(articles, reverse) ==
    LET r == stable_sort(keyed(articles))
        v == IF reverse THEN Reverse(r.val) ELSE r.val
    IN  IF r.raised THEN [raised |-> TRUE, val |-> <<>>]
        ELSE [raised |-> FALSE, val |-> [k \in 1..Len(v) |-> v[k].item]]

sorted(articles, reverse) ==
    LET r == stable_sort(IF reverse THEN Reverse(keyed(articles)) ELSE keyed(articles))
        v == IF reverse THEN Reverse(r.val) ELSE r.val
    IN  IF r.raised THEN [raised |-> TRUE, val |-> <<>>]
        ELSE [raised |-> FALSE, val |-> [k \in 1..Len(v) |-> v[k].item]]

sort_articles_by_date(articles, reverse) == sorted(articles, reverse)

(***************************************************************************)
(* filter_articles                                                         *)
(***************************************************************************)
matches(a, keyword_lower) ==
    \/ str_in(keyword_lower, lower(a.title))
    \/ str_in(keyword_lower, lower(a.description))

\* a filter that lowers the keyword and not the title or the description
filter_articles_raw_haystack(articles, keyword) ==
    LET keyword_lower == lower(keyword)
    IN  SelectSeq(articles, LAMBDA a : \/ str_in(keyword_lower, a.title)
                                       \/ str_in(keyword_lower, a.description))

filter_articles(articles, keyword) ==
    LET keyword_lower == lower(keyword)
    IN  SelectSeq(articles, LAMBDA a : matches(a, keyword_lower))

(***************************************************************************)
(* display_articles: what it prints, as [header, entries].                 *)
(***************************************************************************)
DescriptionChars == 150
Ellipsis == <<".", ".", ".">>

display_entry(idx, article) ==
    [idx |-> idx,
     source |-> article.source,
     title |-> article.title,
     link |-> article.link,
     published |-> article.published,
     description |-> slice_to(article.description, DescriptionChars) \o Ellipsis]

\* a display whose slice runs one article too far
display_articles_one_more(articles, limit) ==
    LET shown == slice_to(articles, limit + 1)
    IN  [header |-> [displaying |-> Min(limit, Len(articles)), total |-> Len(articles)],
         entries |-> [k \in 1..Len(shown) |-> display_entry(k, shown[k])]]

display_articles(articles, limit) ==
    LET shown == slice_to(articles, limit)
    IN  [header |-> [displaying |-> Min(limit, Len(articles)), total |-> Len(articles)],
         entries |-> [k \in 1..Len(shown) |-> display_entry(k, shown[k])]]

(***************************************************************************)
(* Inputs of the model.                                                    *)
(***************************************************************************)
Seqs(S, n) == UNION {[1..k -> S] : k \in 0..n}
Repeat(c, n) == [k \in 1..n |-> c]

NoTitle == <<"N", "o", " ", "t", "i", "t", "l", "e">>
NoDescription == <<"N", "o", " ", "d", "e", "s", "c", "r", "i", "p", "t", "i", "o", "n">>
Technology == <<"t", "e", "c", "h", "n", "o", "l", "o", "g", "y">>
ArtificialIntelligence == <<"a", "r", "t", "i", "f", "i", "c", "i", "a", "l", " ", "i", "n", "t", "e", "l", "l", "i", "g", "e", "n", "c", "e">>

\* a description one character longer than display_articles shows
LongDescription == Repeat("x", DescriptionChars + 1)

Article(title, link, description, published, source) ==
    [title |-> title, link |-> link, description |-> description,
     published |-> published, source |-> source]

\* SpecCalls: the articles the argument is drawn from.  Two aware dates of
\* the same instant, two naive dates of the same value, two texts that do
\* not parse, and a later aware date.
ArticlePool ==
    { Article(<<"A", "I", " ", "N", "e", "w", "s">>, "http://a/1", <<"T", "h", "i", "s", " ", "c", "o", "v", "e", "r", "s", " ", "A", "I", " ", "t", "r", "e", "n", "d", "s">>,
              "2024-01-01T00:00:00Z", "BBC News"),
      Article(<<"O", "l", "d", " ", "T", "e", "c", "h">>, "http://a/2", LongDescription,
              "Mon, 01 Jan 2024 01:00:00 +0100", "TechCrunch"),
      Article(<<"L", "a", "t", "e">>, "http://a/3", <<"n", "e", "w", " ", "t", "e", "c", "h", "n", "o", "l", "o", "g", "y">>,
              "Wed, 03 Jan 2024 00:00:00 GMT", "NPR"),
      Article(NoTitle, "", NoDescription, "", "NPR"),
      Article(<<"U", "n", "d", "a", "t", "e", "d">>, "http://a/5", <<>>, "TBD", "The Guardian"),
      Article(<<"L", "o", "c", "a", "l">>, "http://a/6", <<"F", "a", "i", "r">>, "2024-01-02 00:00:00", "The Guardian"),
      Article(<<"L", "o", "c", "a", "l", " ", "t", "o", "o">>, "http://a/7", <<"T", "E", "C", "H", "N", "O", "L", "O", "G", "Y">>, "2024-01-02T00:00", "BBC News") }

Keywords == { <<>>, <<"A", "I">>, <<"a", "i">>, <<"a", "I">>, <<"T", "e", "c", "h">>, Technology, <<"z", "z">> }

Limits == (0 - MaxLen)..(MaxLen + 1) \cup {5, 10, 15}

\* RSS_FEEDS, in the dict's iteration order (insertion order)
RSS_FEEDS ==
    << [name |-> "BBC News", url |-> "http://feeds.bbci.co.uk/news/rss.xml"],
       [name |-> "TechCrunch", url |-> "https://techcrunch.com/feed/"],
       [name |-> "The Guardian", url |-> "https://www.theguardian.com/world/rss"],
       [name |-> "NPR", url |-> "https://feeds.npr.org/1001/rss.xml"] >>

\* SpecFetch: the mappings handed to fetch_all_feeds; a dict has no key twice
FeedDicts ==
    { d \in Seqs({RSS_FEEDS[k] : k \in 1..Len(RSS_FEEDS)}, MaxSources) :
        \A a, b \in 1..Len(d) : a # b => d[a].name # d[b].name }

\* the number of entries the attempts so far have parsed
RECURSIVE Parsed(_)
Parsed(as) ==
    IF as = <<>> THEN 0 ELSE Len(as[Len(as)].entries) + Parsed(SubSeq(as, 1, Len(as) - 1))

\* the raw entries a parsed feed is made of: dicts that hold some of the keys
EntryPool ==
    { [title |-> <<"N", "e", "w", " ", "C", "h", "i", "p", " ", "U", "n", "v", "e", "i", "l", "e", "d">>, link |-> "http://a/1",
       summary |-> <<"n", "e", "w", " ", "t", "e", "c", "h", "n", "o", "l", "o", "g", "y">>, published |-> "2024-01-01T00:00:00Z",
       updated |-> "Wed, 03 Jan 2024 00:00:00 GMT"],
      [link |-> "http://b/1", description |-> <<"A", "r", "t", "i", "f", "i", "c", "i", "a", "l", " ", "I", "n", "t", "e", "l", "l", "i", "g", "e", "n", "c", "e">>,
       updated |-> "Wed, 03 Jan 2024 00:00:00 GMT"],
      [title |-> <<"A", "I">>, summary |-> <<"F", "a", "i", "r">>, description |-> <<"T", "e", "c", "h", "n", "o", "l", "o", "g", "y">>] }

(***************************************************************************)
(* fetch_all_feeds, one action per step of its loop.                       *)
(***************************************************************************)
\* lines 50-56: the article made of one entry
article_of(entry, source_name) ==
    [title |-> get(entry, "title", NoTitle),
     link |-> get(entry, "link", ""),
     description |-> get(entry, "summary", get(entry, "description", NoDescription)),
     published |-> get(entry, "published", get(entry, "updated", "")),
     source |-> source_name]

source_name == feed_dict[i].name

\* line 43, the mapping is exhausted: line 67
FetchReturn ==
    /\ pc = "fetch_loop"
    /\ i > Len(feed_dict)
    /\ pc' = "fetch_return"
    /\ UNCHANGED <<fetchVars, mainVars, callVars>>

\* lines 43-44: the next source, "Fetching <name>..."
FetchNext ==
    /\ pc = "fetch_loop"
    /\ i <= Len(feed_dict)
    /\ trace' = Append(trace, [ev |-> "Fetching", source |-> source_name])
    /\ pc' = "fetch_parse"
    /\ UNCHANGED <<feed_dict, i, feed, j, all_articles, attempts>>
    /\ UNCHANGED <<mainVars, callVars>>

\* line 47, feedparser.parse returns a feed
FetchParse ==
    /\ pc = "fetch_parse"
    /\ \E entries \in Seqs(EntryPool, MaxEntries) :
        /\ Parsed(attempts) + Len(entries) <= MaxFetched
        /\ feed' = entries
    /\ j' = 1
    /\ pc' = "fetch_entries"
    /\ UNCHANGED <<feed_dict, i, all_articles, attempts, trace>>
    /\ UNCHANGED <<mainVars, callVars>>

\* lines 61-62: the handler, "Error fetching <name>: ..."
Except(parsed) ==
    /\ attempts' = Append(attempts, [source |-> source_name, parsed |-> parsed,
                                     entries |-> feed, raised |-> TRUE])
    /\ trace' = Append(trace, [ev |-> "Error", source |-> source_name])
    /\ pc' = "fetch_sleep"

\* a handler that goes on to the next source at once, as `continue` would
FetchParseRaise_continue ==
    /\ pc = "fetch_parse"
    /\ attempts' = Append(attempts, [source |-> source_name, parsed |-> FALSE,
                                     entries |-> feed, raised |-> TRUE])
    /\ trace' = Append(trace, [ev |-> "Error", source |-> source_name])
    /\ i' = i + 1
    /\ pc' = "fetch_loop"
    /\ UNCHANGED <<feed_dict, feed, j, all_articles>>
    /\ UNCHANGED <<mainVars, callVars>>

\* line 47, retrieval or parsing raises
FetchParseRaise ==
    /\ pc = "fetch_parse"
    /\ Except(FALSE)
    /\ UNCHANGED <<feed_dict, i, feed, j, all_articles>>
    /\ UNCHANGED <<mainVars, callVars>>

\* lines 49-57: one entry becomes an article and is appended
FetchEntry ==
    /\ pc = "fetch_entries"
    /\ j <= Len(feed)
    /\ all_articles' = Append(all_articles, article_of(feed[j], source_name))
    /\ j' = j + 1
    /\ UNCHANGED <<pc, feed_dict, i, feed, attempts, trace>>
    /\ UNCHANGED <<mainVars, callVars>>

\* lines 49-57, turning the entry into an article raises
FetchEntryRaise ==
    /\ pc = "fetch_entries"
    /\ j <= Len(feed)
    /\ Except(TRUE)
    /\ UNCHANGED <<feed_dict, i, feed, j, all_articles>>
    /\ UNCHANGED <<mainVars, callVars>>

\* line 59, the entries are exhausted: "Found <n> articles"
FetchFound ==
    /\ pc = "fetch_entries"
    /\ j > Len(feed)
    /\ attempts' = Append(attempts, [source |-> source_name, parsed |-> TRUE,
                                     entries |-> feed, raised |-> FALSE])
    /\ trace' = Append(trace, [ev |-> "Found", n |-> Len(feed)])
    /\ pc' = "fetch_sleep"
    /\ UNCHANGED <<feed_dict, i, feed, j, all_articles>>
    /\ UNCHANGED <<mainVars, callVars>>

\* line 65: time.sleep(0.5), then the loop moves on
FetchSleep ==
    /\ pc = "fetch_sleep"
    /\ trace' = Append(trace, [ev |-> "sleep"])
    /\ i' = i + 1
    /\ feed' = <<>>
    /\ j' = 1
    /\ pc' = "fetch_loop"
    /\ UNCHANGED <<feed_dict, all_articles, attempts>>
    /\ UNCHANGED <<mainVars, callVars>>

Fetch ==
    \/ FetchNext
    \/ FetchParse
    \/ FetchParseRaise
    \/ FetchEntry
    \/ FetchEntryRaise
    \/ FetchFound
    \/ FetchSleep
    \/ FetchReturn

InitFetch ==
    /\ pc = "fetch_loop"
    /\ feed_dict \in FeedDicts
    /\ i = 1
    /\ feed = <<>>
    /\ j = 1
    /\ all_articles = <<>>
    /\ attempts = <<>>
    /\ trace = <<>>
    /\ sorted_articles = <<>>
    /\ tech_news = <<>>
    /\ ai_news = <<>>
    /\ out = <<>>
    /\ stages = <<>>
    /\ input = <<>>
    /\ call = [fn |-> "none"]

SpecFetch == InitFetch /\ [][Fetch]_vars

(***************************************************************************)
(* main, one action per stage.  An exception that main does not catch      *)
(* ends the run: pc = "raised".                                            *)
(***************************************************************************)
Init ==
    /\ pc = "main"
    /\ feed_dict = <<>>
    /\ i = 1
    /\ feed = <<>>
    /\ j = 1
    /\ all_articles = <<>>
    /\ attempts = <<>>
    /\ trace = <<>>
    /\ sorted_articles = <<>>
    /\ tech_news = <<>>
    /\ ai_news = <<>>
    /\ out = <<>>
    /\ stages = <<>>
    /\ input = <<>>
    /\ call = [fn |-> "none"]

\* line 142: fetch_all_feeds(RSS_FEEDS) is entered (line 41)
MainFetch ==
    /\ pc = "main"
    /\ feed_dict' = RSS_FEEDS
    /\ i' = 1
    /\ all_articles' = <<>>
    /\ stages' = Append(stages, "fetch")
    /\ pc' = "fetch_loop"
    /\ UNCHANGED <<feed, j, attempts, trace, sorted_articles, tech_news, ai_news, out>>
    /\ UNCHANGED callVars

\* line 145
MainSort ==
    /\ pc = "fetch_return"
    /\ stages' = Append(stages, "sort")
    /\ LET r == sort_articles_by_date(all_articles, TRUE)
       IN  IF r.raised
           THEN pc' = "raised" /\ UNCHANGED sorted_articles
           ELSE pc' = "display_all" /\ sorted_articles' = r.val
    /\ UNCHANGED <<tech_news, ai_news, out>>
    /\ UNCHANGED <<fetchVars, callVars>>

\* line 148
MainDisplayAll ==
    /\ pc = "display_all"
    /\ stages' = Append(stages, "display_all")
    /\ out' = Append(out, [line |-> "display", of |-> display_articles(sorted_articles, 15)])
    /\ pc' = "filter_tech"
    /\ UNCHANGED <<sorted_articles, tech_news, ai_news>>
    /\ UNCHANGED <<fetchVars, callVars>>

\* lines 151-154
MainFilterTech ==
    /\ pc = "filter_tech"
    /\ stages' = Append(stages, "filter_tech")
    /\ tech_news' = filter_articles(sorted_articles, Technology)
    /\ out' = Append(out, [line |-> "filtered", keyword |-> Technology,
                           found |-> Len(tech_news')])
    /\ pc' = "display_tech"
    /\ UNCHANGED <<sorted_articles, ai_news>>
    /\ UNCHANGED <<fetchVars, callVars>>

\* line 155
MainDisplayTech ==
    /\ pc = "display_tech"
    /\ stages' = Append(stages, "display_tech")
    /\ out' = Append(out, [line |-> "display", of |-> display_articles(tech_news, 10)])
    /\ pc' = "filter_ai"
    /\ UNCHANGED <<sorted_articles, tech_news, ai_news>>
    /\ UNCHANGED <<fetchVars, callVars>>

\* a second filter that reads the first filter's result
MainFilterAI_chained ==
    /\ pc = "filter_ai"
    /\ stages' = Append(stages, "filter_ai")
    /\ ai_news' = filter_articles(tech_news, ArtificialIntelligence)
    /\ out' = Append(out, [line |-> "filtered", keyword |-> ArtificialIntelligence,
                           found |-> Len(ai_news')])
    /\ pc' = "display_ai"
    /\ UNCHANGED <<sorted_articles, tech_news>>
    /\ UNCHANGED <<fetchVars, callVars>>

\* lines 158-161
MainFilterAI ==
    /\ pc = "filter_ai"
    /\ stages' = Append(stages, "filter_ai")
    /\ ai_news' = filter_articles(sorted_articles, ArtificialIntelligence)
    /\ out' = Append(out, [line |-> "filtered", keyword |-> ArtificialIntelligence,
                           found |-> Len(ai_news')])
    /\ pc' = "display_ai"
    /\ UNCHANGED <<sorted_articles, tech_news>>
    /\ UNCHANGED <<fetchVars, callVars>>

\* line 162
MainDisplayAI ==
    /\ pc = "display_ai"
    /\ stages' = Append(stages, "display_ai")
    /\ out' = Append(out, [line |-> "display", of |-> display_articles(ai_news, 5)])
    /\ pc' = "done"
    /\ UNCHANGED <<sorted_articles, tech_news, ai_news>>
    /\ UNCHANGED <<fetchVars, callVars>>

Next ==
    \/ MainFetch
    \/ Fetch
    \/ MainSort
    \/ MainDisplayAll
    \/ MainFilterTech
    \/ MainDisplayTech
    \/ MainFilterAI
    \/ MainDisplayAI

Spec == Init /\ [][Next]_vars

(***************************************************************************)
(* SpecCalls: one call of sort_articles_by_date, filter_articles or        *)
(* display_articles on an argument drawn from the bounded inputs.          *)
(***************************************************************************)
InitCalls ==
    /\ pc = "call"
    /\ input \in Seqs(ArticlePool, MaxLen)
    /\ call = [fn |-> "none"]
    /\ feed_dict = <<>>
    /\ i = 1
    /\ feed = <<>>
    /\ j = 1
    /\ all_articles = <<>>
    /\ attempts = <<>>
    /\ trace = <<>>
    /\ sorted_articles = <<>>
    /\ tech_news = <<>>
    /\ ai_news = <<>>
    /\ out = <<>>
    /\ stages = <<>>

CallSort ==
    /\ pc = "call"
    /\ \E reverse \in BOOLEAN :
        call' = [fn |-> "sort_articles_by_date", reverse |-> reverse,
                 ret |-> sort_articles_by_date(input, reverse)]
    /\ pc' = "returned"
    /\ UNCHANGED <<input, fetchVars, mainVars>>

CallFilter ==
    /\ pc = "call"
    /\ \E keyword \in Keywords :
        call' = [fn |-> "filter_articles", keyword |-> keyword,
                 ret |-> filter_articles(input, keyword)]
    /\ pc' = "returned"
    /\ UNCHANGED <<input, fetchVars, mainVars>>

CallDisplay ==
    /\ pc = "call"
    /\ \E limit \in Limits :
        call' = [fn |-> "display_articles", limit |-> limit,
                 printed |-> display_articles(input, limit)]
    /\ pc' = "returned"
    /\ UNCHANGED <<input, fetchVars, mainVars>>

NextCalls ==
    \/ CallSort
    \/ CallFilter
    \/ CallDisplay

SpecCalls == InitCalls /\ [][NextCalls]_vars

(***************************************************************************)
(* Claims about the three functions, checked under SpecCalls.              *)
(***************************************************************************)
Key(a) == parse_date(a.published)
Unparseable(a) == date_parser_parse(a.published).raised
Count(s, a) == Cardinality({k \in DOMAIN s : s[k] = a})
Sorting == call.fn = "sort_articles_by_date"
Filtering == call.fn = "filter_articles"
Displaying == call.fn = "display_articles"

\* C3: sort_articles_by_date returns a result on every sequence of articles,
\* whatever mix of unparseable, naive and aware dates it holds, and in the
\* result the unparseable articles come after every article with a valid
\* date when descending and before every such article when ascending.
C3_SortReturnsSentinelLast ==
    Sorting =>
        /\ ~call.ret.raised
        /\ \A p, q \in DOMAIN call.ret.val :
            (Unparseable(call.ret.val[p]) /\ ~Unparseable(call.ret.val[q]))
                => IF call.reverse THEN q < p ELSE p < q

\* C4: sort_articles_by_date returns, on every sequence of articles and for
\* either flag, a permutation of its argument that is non-increasing in the
\* parsed date when descending and non-decreasing when ascending; the
\* ascending result reversed has the dates of the descending result.
C4_SortReturnsOrderedPermutation ==
    Sorting =>
        LET r == call.ret.val
            asc == sort_articles_by_date(input, FALSE)
            desc == sort_articles_by_date(input, TRUE)
        IN  /\ ~call.ret.raised
            /\ \A a \in ArticlePool : Count(r, a) = Count(input, a)
            /\ \A p \in 1..(Len(r) - 1) :
                IF call.reverse THEN Key(r[p]).t >= Key(r[p + 1]).t
                ELSE Key(r[p]).t <= Key(r[p + 1]).t
            /\ \A p \in 1..Len(r) : Key(Reverse(asc.val)[p]) = Key(desc.val[p])

\* What C3 and C4 say of the result holds of every result that is returned.
SortResultWhenReturned ==
    (Sorting /\ ~call.ret.raised) =>
        LET r == call.ret.val
        IN  /\ \A a \in ArticlePool : Count(r, a) = Count(input, a)
            /\ \A p \in 1..(Len(r) - 1) :
                /\ comparable(Key(r[p]), Key(r[p + 1]))
                /\ IF call.reverse THEN Key(r[p]).t >= Key(r[p + 1]).t
                   ELSE Key(r[p]).t <= Key(r[p + 1]).t
            /\ \A p, q \in DOMAIN r :
                (Unparseable(r[p]) /\ ~Unparseable(r[q]))
                    => IF call.reverse THEN q < p ELSE p < q

\* The sort raises exactly when its argument holds a naive and an aware date.
SortRaisesOnMixedDates ==
    Sorting =>
        (call.ret.raised <=> \E p, q \in DOMAIN input : Key(input[p]).tz # Key(input[q]).tz)

\* C5: sort_articles_by_date is stable in both directions: the articles of
\* one parsed date appear in the result in the order they have in the input.
C5_SortIsStable ==
    (Sorting /\ ~call.ret.raised) =>
        \A a \in ArticlePool :
            SelectSeq(call.ret.val, LAMBDA x : Key(x) = Key(a))
                = SelectSeq(input, LAMBDA x : Key(x) = Key(a))

C5_Witness ==
    /\ Sorting
    /\ call.reverse
    /\ ~call.ret.raised
    /\ Len(input) = 3
    /\ call.ret.val # input
    /\ \E p, q \in DOMAIN input :
        p < q /\ input[p] # input[q] /\ Key(input[p]) = Key(input[q])

\* the two characters are one letter, in whatever case
SameLetter(a, b) ==
    a = b \/ \E k \in 1..Len(Upper) : {a, b} = {Upper[k], Lower[k]}

ContainsIgnoringCase(hay, needle) ==
    \E p \in 0..(Len(hay) - Len(needle)) :
        \A k \in 1..Len(needle) : SameLetter(hay[p + k], needle[k])

\* C6: filter_articles returns the subsequence, in input order, of the
\* articles whose title or description contains the keyword, case ignored
\* on both sides; the empty keyword returns the input as it is.
C6_FilterIsSubsequenceIgnoringCase ==
    Filtering =>
        /\ call.ret = SelectSeq(input, LAMBDA a :
                \/ ContainsIgnoringCase(a.title, call.keyword)
                \/ ContainsIgnoringCase(a.description, call.keyword))
        /\ call.keyword = <<>> => call.ret = input

C6_Witness ==
    /\ Filtering
    /\ call.keyword = <<"a", "I">>
    /\ Len(input) = 3
    /\ Len(call.ret) = 1
    /\ call.ret[1].description = <<"T", "h", "i", "s", " ", "c", "o", "v", "e", "r", "s", " ", "A", "I", " ", "t", "r", "e", "n", "d", "s">>
    /\ call.ret[1] = input[2]

\* the printed entries are the leading articles of the input, in its order
LeadingEntries(es) ==
    /\ Len(es) <= Len(input)
    /\ \A k \in 1..Len(es) :
        /\ es[k].idx = k
        /\ es[k].source = input[k].source
        /\ es[k].title = input[k].title
        /\ es[k].link = input[k].link
        /\ es[k].published = input[k].published
        /\ LET d == input[k].description
           IN  es[k].description
                 = [m \in 1..(IF Len(d) < 150 THEN Len(d) ELSE 150) |-> d[m]]
                     \o <<".", ".", ".">>

\* C7: display_articles prints, for every display limit, at most `limit`
\* entries: the leading articles of the input in input order (all of them
\* when the input has no more than `limit`), numbered from 1, the
\* description line being the first 150 characters and the ellipsis.
C7_DisplayAtMostLimit ==
    Displaying =>
        /\ Len(call.printed.entries) <= call.limit
        /\ Len(input) <= call.limit => Len(call.printed.entries) = Len(input)
        /\ LeadingEntries(call.printed.entries)

\* C7 as amended: the same, for every display limit that is not negative.
C7_DisplayAtMostLimitIfNotNegative ==
    (Displaying /\ call.limit >= 0) =>
        /\ Len(call.printed.entries) <= call.limit
        /\ Len(input) <= call.limit => Len(call.printed.entries) = Len(input)
        /\ LeadingEntries(call.printed.entries)

C7_Witness ==
    /\ Displaying
    /\ call.limit = 2
    /\ Len(input) = 3
    /\ Len(call.printed.entries) = 2
    /\ Len(input[1].description) > 150
    /\ Len(input[2].description) < 150

\* C10: the count announced in the header of display_articles, "Displaying
\* N of M total articles", is the number of entries printed after it, for
\* every integer limit, and M is the length of the input.
C10_HeaderCountsEntries ==
    Displaying =>
        /\ call.printed.header.displaying = Len(call.printed.entries)
        /\ call.printed.header.total = Len(input)

\* The header is right exactly when the limit is not negative.
HeaderRightIfLimitNotNegative ==
    Displaying =>
        /\ call.printed.header.total = Len(input)
        /\ call.limit >= 0 => call.printed.header.displaying = Len(call.printed.entries)
        /\ call.limit < 0 => call.printed.header.displaying < Len(call.printed.entries)

(***************************************************************************)
(* Claims about fetch_all_feeds, checked under SpecFetch.                  *)
(***************************************************************************)
Returned == pc = "fetch_return"

\* the articles of the result that carry the name of the k-th source
ArticlesOf(k) == SelectSeq(all_articles, LAMBDA a : a.source = attempts[k].source)

\* the articles the entries parsed for the k-th source turn into
Converted(k) ==
    [n \in 1..Len(attempts[k].entries) |->
        article_of(attempts[k].entries[n], attempts[k].source)]

\* C1: a failure at any point of one source's attempt (retrieval, parsing,
\* or while its entries are turned into articles) is caught, that source
\* contributes no article to the returned list, and every later source is
\* still attempted and contributes all of its entries.
C1_FailedSourceContributesNothing ==
    Returned =>
        /\ Len(attempts) = Len(feed_dict)
        /\ \A k \in DOMAIN attempts :
            /\ attempts[k].source = feed_dict[k].name
            /\ ArticlesOf(k) = IF attempts[k].raised THEN <<>> ELSE Converted(k)

\* What the loop does: a source whose attempt raised leaves in the list the
\* articles appended before the failure, a prefix of its entries.
FailedSourceContributesPrefix ==
    Returned =>
        /\ Len(attempts) = Len(feed_dict)
        /\ \A k \in DOMAIN attempts :
            /\ attempts[k].source = feed_dict[k].name
            /\ ~attempts[k].raised => ArticlesOf(k) = Converted(k)
            /\ ~attempts[k].parsed => ArticlesOf(k) = <<>>
            /\ attempts[k].raised =>
                /\ Len(ArticlesOf(k)) < Max(Len(Converted(k)), 1)
                /\ ArticlesOf(k) = SubSeq(Converted(k), 1, Len(ArticlesOf(k)))

\* the entries of the first n sources, those of a raised attempt left out
RECURSIVE Concatenated(_)
Concatenated(n) ==
    IF n = 0 THEN <<>>
    ELSE Concatenated(n - 1) \o (IF attempts[n].raised THEN <<>> ELSE Converted(n))

\* C2: the returned list is the concatenation, in the mapping's order, of
\* the entries of the sources whose attempt succeeded, in feed order, each
\* tagged with its source; its length is the sum of their entry counts.
C2_ResultIsConcatenation ==
    Returned => all_articles = Concatenated(Len(attempts))

\* the sleeps of the run so far
Pauses == Cardinality({p \in DOMAIN trace : trace[p].ev = "sleep"})

\* C9: one pause per source, after the source's attempt has ended, whether
\* it succeeded or failed, and before the next attempt begins; the pauses
\* of a run are as many as the sources of the mapping.
C9_OnePausePerSource ==
    /\ \A p \in DOMAIN trace :
        CASE p % 3 = 1 -> /\ trace[p].ev = "Fetching"
                          /\ trace[p].source = feed_dict[(p + 2) \div 3].name
          [] p % 3 = 2 -> trace[p].ev \in {"Found", "Error"}
          [] OTHER -> trace[p].ev = "sleep"
    /\ \A k \in DOMAIN attempts :
        trace[3 * k - 1].ev = IF attempts[k].raised THEN "Error" ELSE "Found"
    /\ Returned => (Pauses = Len(feed_dict) /\ Len(trace) = 3 * Len(feed_dict))

C9_Witness ==
    /\ Returned
    /\ Len(feed_dict) = 2
    /\ attempts[1].raised
    /\ ~attempts[2].raised
    /\ Pauses = 2

(***************************************************************************)
(* Claims about main, checked under Spec.                                  *)
(***************************************************************************)
StageOrder ==
    <<"fetch", "sort", "display_all", "filter_tech", "display_tech",
      "filter_ai", "display_ai">>

Matching(articles, keyword) ==
    SelectSeq(articles, LAMBDA a : \/ ContainsIgnoringCase(a.title, keyword)
                                   \/ ContainsIgnoringCase(a.description, keyword))

\* C8: the stages of main happen in the order fetch, sort, display-all,
\* filter 'technology', display, filter 'artificial intelligence', display;
\* no stage after the fetch starts before every configured source has been
\* attempted, and both filters read the full sorted list.
C8_StagesInOrder ==
    /\ Len(stages) <= Len(StageOrder)
    /\ stages = SubSeq(StageOrder, 1, Len(stages))
    /\ Len(stages) >= 2 =>
        /\ Len(attempts) = Len(RSS_FEEDS)
        /\ \A k \in DOMAIN attempts : attempts[k].source = RSS_FEEDS[k].name
        /\ Len(trace) = 3 * Len(RSS_FEEDS)
        /\ trace[Len(trace)].ev = "sleep"
    /\ Len(stages) >= 4 => tech_news = Matching(sorted_articles, Technology)
    /\ Len(stages) >= 6 => ai_news = Matching(sorted_articles, ArtificialIntelligence)

C8_Witness ==
    /\ pc = "done"
    /\ stages = StageOrder
    /\ \E k \in DOMAIN attempts : attempts[k].raised
    /\ tech_news # <<>>
    /\ \E k \in DOMAIN ai_news : \A m \in DOMAIN tech_news : tech_news[m] # ai_news[k]

====
